---- MODULE Spec2Model ----
(***************************************************************************)
(* Model of the kernel-interface layer of tsfc:                            *)
(*   tsfc/kernel_interface/ufc.py      KernelBuilder, prepare_coefficient, *)
(*                                     prepare_coordinates,                *)
(*                                     prepare_arguments, add_cell_index,  *)
(*                                     free_cell_index                     *)
(*   tsfc/kernel_interface/fenicsx.py  KernelBuilder.set_coefficients,     *)
(*                                     prepare_coefficient                 *)
(*   tsfc/parameters.py                get_common_parameter                *)
(*                                                                         *)
(* A GEM view of a flat buffer is modelled by what it addresses: a base    *)
(* offset and one (extent, stride) pair per dimension.  Python's None is   *)
(* the string "None" for scalar fields and the empty sequence for the      *)
(* list-valued fields (which are never empty once assigned).  An exception *)
(* is recorded in `raised`; the builder object keeps the fields it had     *)
(* when the exception left the method.                                     *)
(***************************************************************************)
EXTENDS Integers, Sequences, FiniteSets, TLC

\* ------------------------------------------------------------------ bounds
MaxArguments == 2
MaxCoefficients == 2
MaxFields == 3
MaxMetadata == 2
MaxRank == 2
MaxExtent == 4
MaxOps == 2

\* ------------------------------------------------------- program constants
\* ufc.py:310  ci_shape = (4,)
ci_shape == <<4>>

None == "None"
NoneList == <<>>

\* The four integral kinds the builder distinguishes, and an integral type
\* outside them.
IntegralKinds == {"cell", "exterior_facet", "interior_facet", "vertex"}
IntegralTypes == IntegralKinds \cup {"custom"}
BuilderClasses == {"ufc", "fenicsx"}

\* integral_type.startswith("interior_facet")           (ufc.py:29)
StartsWithInteriorFacet(integral_type) ==
  integral_type \in {"interior_facet", "interior_facet_horiz"}

\* ------------------------------------------------------------ input domains
\* element.index_shape of the arguments' elements
ArgumentShapes == {<<3>>, <<2, 2>>}
ArgumentLists == UNION {[1..n -> ArgumentShapes] : n \in 0..MaxArguments}

\* A coefficient as the planner reads it: the family of its element, its
\* ufl_shape (read for the Real family) and its element's index_shape (read
\* otherwise).
Coefficients ==
  { [family |-> "Real",     ufl_shape |-> <<2>>, index_shape |-> <<2>>],
    [family |-> "Lagrange", ufl_shape |-> <<>>,  index_shape |-> <<5>>],
    [family |-> "Lagrange", ufl_shape |-> <<2>>, index_shape |-> <<7>>] }
CoefficientLists == UNION {[1..n -> Coefficients] : n \in 0..MaxCoefficients}
\* integral_data.enabled_coefficients for a list of n coefficients
EnabledFlags(n) == [1..n -> BOOLEAN]

\* The coordinate element: a TensorFiniteElement with the index shape of
\* its scalar base element and its tensor shape (_shape).
CoordinateElements ==
  { [scalar_shape |-> <<3>>, tensor_shape |-> <<2>>] }

\* ------------------------------------------------------------------ helpers
RECURSIVE Prod(_)
\* numpy.prod(shape, dtype=int)
Prod(shape) ==
  IF Len(shape) = 0 THEN 1 ELSE Head(shape) * Prod(Tail(shape))

\* gem.strides_of: cumulative row-major strides, [2,3,4] ==> [12,4,1]
StridesOf(shape) ==
  [i \in 1..Len(shape) |-> Prod(SubSeq(shape, i + 1, Len(shape)))]

RECURSIVE Concat(_)
\* itertools.chain(*seqs)
Concat(seqs) ==
  IF Len(seqs) = 0 THEN <<>> ELSE Head(seqs) \o Concat(Tail(seqs))

\* slice(start, stop)
Slice(start, stop) == [start |-> start, stop |-> stop]

Err(name) == [status |-> name, offset |-> 0, dims |-> <<>>]
IsOk(e) == e.status = "ok"

\* gem.reshape(gem.Variable(name, (None,)), shape): the flat variable read as
\* a row-major tensor of the given shape.
ReshapeVariable(shape) ==
  [status |-> "ok", offset |-> 0,
   dims |-> [i \in 1..Len(shape) |->
               [extent |-> shape[i], stride |-> StridesOf(shape)[i]]]]

\* gem.view(expression, *slices): one half-open range per dimension; a range
\* that exceeds the extent fails.  With fewer slices than dimensions the call
\* either fails its check of the number of slices (arity_checked) or leaves
\* the remaining dimensions unsliced.
View(e, slices, arity_checked) ==
  IF ~IsOk(e) THEN e
  ELSE IF Len(slices) # Len(e.dims) /\ arity_checked THEN Err("AssertionError")
  ELSE LET n == IF Len(slices) < Len(e.dims) THEN Len(slices)
                ELSE Len(e.dims)
           RECURSIVE Shift(_)
           Shift(i) == IF i > n THEN 0
                       ELSE slices[i].start * e.dims[i].stride + Shift(i + 1)
       IN IF \E i \in 1..n : slices[i].stop > e.dims[i].extent
          THEN Err("ValueError")
          ELSE [status |-> "ok",
                offset |-> e.offset + Shift(1),
                dims |-> [i \in 1..Len(e.dims) |->
                            IF i <= n
                            THEN [extent |-> slices[i].stop - slices[i].start,
                                  stride |-> e.dims[i].stride]
                            ELSE e.dims[i]]]

\* gem.reshape(expression, *shapes): one shape per dimension, splitting the
\* dimension; the product of a shape must equal the extent it splits.
Reshape(e, shapes) ==
  IF ~IsOk(e) THEN e
  ELSE IF Len(shapes) # Len(e.dims) THEN Err("AssertionError")
  ELSE IF \E i \in 1..Len(shapes) : Prod(shapes[i]) # e.dims[i].extent
       THEN Err("ValueError")
  ELSE [status |-> "ok", offset |-> e.offset,
        dims |-> Concat([i \in 1..Len(shapes) |->
                   [j \in 1..Len(shapes[i]) |->
                      [extent |-> shapes[i][j],
                       stride |-> StridesOf(shapes[i])[j] * e.dims[i].stride]]])]

RECURSIVE AddressesFrom(_, _)
AddressesFrom(offset, dims) ==
  IF Len(dims) = 0 THEN {offset}
  ELSE UNION { AddressesFrom(offset + k * Head(dims).stride, Tail(dims)) :
               k \in 0..(Head(dims).extent - 1) }

\* The flat buffer positions gem.Indexed(e, indices) reads or writes as its
\* free indices run over their extents.
Addresses(e) == AddressesFrom(e.offset, e.dims)

\* ------------------------------------------------- ufc.py: cell index
\* A shaped expression built over a base expression e is modelled by its
\* shape and, for every dimension of e, the place its index comes from:
\* [out |-> k] is the k-th index of the result, [out |-> 0] the shared index
\* ci.  Shapes hold extents; the extent bound to ci is ci_shape[1].
ShapedErr(name) == [status |-> name, shape |-> <<>>, src |-> <<>>]

\* The expression e itself, of the given shape.
Base(shape) ==
  [status |-> "ok", shape |-> shape,
   src |-> [k \in 1..Len(shape) |-> [out |-> k]]]

\* gem.ComponentTensor(gem.Indexed(expr, indices + (ci,)), indices) for a
\* tuple of `rank` fresh indices.  Indexed takes one index per dimension of
\* expr; with a different number it fails its arity check (arity_checked) or
\* binds indices and dimensions pairwise as far as both last.
IndexWithCi(expr, rank, arity_checked) ==
  IF expr.status # "ok" THEN expr
  ELSE IF rank + 1 # Len(expr.shape) /\ arity_checked
       THEN ShapedErr("AssertionError")
  ELSE LET bound == IF rank + 1 <= Len(expr.shape) THEN rank + 1
                    ELSE Len(expr.shape)
           \* the index an own dimension d of expr is bound to
           arg(d) == IF d <= rank THEN [out |-> d] ELSE [out |-> 0]
       IN [status |-> "ok",
           shape |-> [k \in 1..rank |->
                        IF k <= bound THEN expr.shape[k] ELSE 0],
           src |-> [k \in 1..Len(expr.src) |->
                      IF expr.src[k].out = 0 THEN [out |-> 0]
                      ELSE IF expr.src[k].out <= bound
                           THEN arg(expr.src[k].out)
                           ELSE [out |-> -1]]]

\* ufc.py:312-314
add_cell_index(expr, arity_checked) ==
  IndexWithCi(expr, Len(expr.shape), arity_checked)

\* ufc.py:315-317; expr.shape[:-1] of an empty shape is empty
free_cell_index(expr, arity_checked) ==
  IndexWithCi(expr,
              IF Len(expr.shape) = 0 THEN 0 ELSE Len(expr.shape) - 1,
              arity_checked)

\* ------------------------------------------- ufc.py: prepare_arguments
Min(a, b) == IF a < b THEN a ELSE b

RECURSIVE Pow2(_)
Pow2(n) == IF n = 0 THEN 1 ELSE 2 * Pow2(n - 1)

\* itertools.product((0, 1), repeat=n): 2^n tuples, the first entry varying
\* slowest.
Restrictions(n) ==
  [k \in 1..Pow2(n) |-> [i \in 1..n |-> ((k - 1) \div Pow2(n - i)) % 2]]

\* ufc.py:289-290
UShape(arguments) ==
  [i \in 1..Len(arguments) |-> Prod(arguments[i])] \o ci_shape

\* ufc.py:291-298; zip(restrictions, u_shape) stops at the shorter of the two
CShape(arguments, interior_facet) ==
  LET u_shape == UShape(arguments)
  IN IF interior_facet
     THEN [i \in 1..Len(u_shape) |-> 2 * u_shape[i]]
     ELSE u_shape

Slicez(arguments, interior_facet) ==
  LET u_shape == UShape(arguments)
      n == Len(arguments)
  IN IF interior_facet
     THEN [k \in 1..Pow2(n) |->
             [i \in 1..Min(n, Len(u_shape)) |->
                Slice(Restrictions(n)[k][i] * u_shape[i],
                      (Restrictions(n)[k][i] + 1) * u_shape[i])]]
     ELSE << [i \in 1..Len(u_shape) |-> Slice(0, u_shape[i])] >>

\* ufc.py:256-307.  The result of a call that returns has status "ok"; a
\* call that raises has the exception's name as status.  prune rewrites the
\* expression tree and leaves what it addresses alone.
prepare_arguments(arguments, interior_facet, arity_checked) ==
  LET shapes == arguments \o <<ci_shape>>
      c_shape == CShape(arguments, interior_facet)
      slicez == Slicez(arguments, interior_facet)
      expression(restricted) == Reshape(restricted, shapes)
      expressions == [k \in 1..Len(slicez) |->
                        expression(View(ReshapeVariable(c_shape), slicez[k],
                                        arity_checked))]
      failed == {k \in 1..Len(expressions) : ~IsOk(expressions[k])}
  IN IF failed # {}
     THEN [status |-> expressions[CHOOSE k \in failed :
                                    \A j \in failed : k <= j].status,
           funarg |-> None, zero |-> 0, expressions |-> <<>>]
     ELSE [status |-> "ok", funarg |-> "A", zero |-> Prod(c_shape),
           expressions |-> expressions]

\* ------------------------------------------ ufc.py: prepare_coordinates
\* name + "_0", name + "_1"
Suffixed(name, side) ==
  IF name = "coordinate_dofs"
  THEN (IF side = 0 THEN "coordinate_dofs_0" ELSE "coordinate_dofs_1")
  ELSE (IF side = 0 THEN "w_0" ELSE "w_1")

\* the function arguments with the interior-facet pair forgotten
CoordinateFunargs_single(name, interior_facet) == <<name>>

\* ufc.py:231-253, the function arguments
CoordinateFunargs(name, interior_facet) ==
  IF ~interior_facet THEN <<name>>
  ELSE <<Suffixed(name, 0), Suffixed(name, 1)>>

\* ufc.py:203-253.  The expression read from a coordinate variable: the flat
\* variable of `size` entries reshaped to scalar_shape + tensor_shape +
\* ci_shape, transposed to tensor_shape + scalar_shape + ci_shape, the
\* trailing cell index freed.
prepare_coordinates(element, name, interior_facet) ==
  LET index_shape == element.tensor_shape \o element.scalar_shape
      shape == index_shape \o ci_shape
      size == Prod(shape)
      funargs == CoordinateFunargs(name, interior_facet)
  IN [funargs |-> funargs,
      expression |-> [k \in 1..Len(funargs) |->
                        [variable |-> funargs[k], size |-> size,
                         shape |-> index_shape]]]

\* ----------------------------------------- ufc.py: prepare_coefficient
\* A view of the coefficient variable: row `row` of w (always 0 in the flat
\* buffer of fenicsx.py), entries start..stop-1, read with the given shape.
\* (In ufc.py every entry has its ci_shape[1] side entries, all of them in
\* the view before free_cell_index.)
CoefficientView(row, start, stop, shape) ==
  [row |-> row, start |-> start, stop |-> stop, shape |-> shape]

\* ufc.py:163-200.  For an interior facet the two gem.view calls pass two
\* slices for the three dimensions of w, and free_cell_index is then applied
\* to the tuple of the two expressions, which has no shape.
ufc_prepare_coefficient(coefficient, num, interior_facet, arity_checked) ==
  IF coefficient.family = "Real"
  THEN [status |-> "ok",
        views |-> << CoefficientView(num, 0, Prod(coefficient.ufl_shape),
                                     coefficient.ufl_shape) >>]
  ELSE LET size == Prod(coefficient.index_shape)
       IN IF ~interior_facet
          THEN [status |-> "ok",
                views |-> << CoefficientView(num, 0, size,
                                             coefficient.index_shape) >>]
          ELSE IF arity_checked
               THEN [status |-> "AssertionError", views |-> <<>>]
               ELSE [status |-> "AttributeError", views |-> <<>>]

\* ------------------------------------- fenicsx.py: prepare_coefficient
\* fenicsx.py:41-78: (expression, offset)
fenicsx_prepare_coefficient(coefficient, offset, interior_facet) ==
  IF coefficient.family = "Real"
  THEN LET size == Prod(coefficient.ufl_shape)
       IN [views |-> << CoefficientView(0, offset, offset + size,
                                        coefficient.ufl_shape) >>,
           offset |-> offset + size]
  ELSE LET size == Prod(coefficient.index_shape)
       IN IF ~interior_facet
          THEN [views |-> << CoefficientView(0, offset, offset + size,
                                             coefficient.index_shape) >>,
                offset |-> offset + size]
          ELSE [views |-> << CoefficientView(0, offset, offset + size,
                                             coefficient.index_shape),
                             CoefficientView(0, offset + size,
                                             offset + 2 * size,
                                             coefficient.index_shape) >>,
                offset |-> offset + 2 * size]

\* ------------------------------------------------ KernelBuilder: the loops
\* An entry of coefficient_map; a coefficient without an entry has no views.
NoEntry == [present |-> FALSE, views |-> <<>>]
Entry(views) == [present |-> TRUE, views |-> views]

RECURSIVE UfcCoefficientLoop(_, _, _, _, _, _)
\* ufc.py:92-98, from iteration n on, with the coefficient_map so far.  The
\* coefficient index passed to prepare_coefficient is range(...)'s n, which
\* counts from 0.
UfcCoefficientLoop(n, coefs, flags, interior, arity_checked, map) ==
  IF n > Len(coefs) THEN [status |-> "ok", map |-> map]
  ELSE IF ~flags[n]
       THEN UfcCoefficientLoop(n + 1, coefs, flags, interior,
                               arity_checked, map)
  ELSE LET r == ufc_prepare_coefficient(coefs[n], n - 1, interior,
                                        arity_checked)
       IN IF r.status # "ok" THEN [status |-> r.status, map |-> map]
          ELSE UfcCoefficientLoop(n + 1, coefs, flags, interior,
                                  arity_checked,
                                  [map EXCEPT ![n] = Entry(r.views)])

RECURSIVE FenicsxCoefficientLoop_skipping(_, _, _, _, _, _)
\* the loop with disabled coefficients skipped before the offset advances
FenicsxCoefficientLoop_skipping(n, coefs, flags, interior, start, map) ==
  IF n > Len(coefs) THEN [offset |-> start, map |-> map]
  ELSE IF ~flags[n]
       THEN FenicsxCoefficientLoop_skipping(n + 1, coefs, flags, interior,
                                            start, map)
  ELSE LET r == fenicsx_prepare_coefficient(coefs[n], start, interior)
       IN FenicsxCoefficientLoop_skipping(n + 1, coefs, flags, interior,
                                          r.offset,
                                          [map EXCEPT ![n] = Entry(r.views)])

RECURSIVE FenicsxCoefficientLoop(_, _, _, _, _, _)
\* fenicsx.py:30-38, from iteration n on, with the running offset and the
\* coefficient_map so far.
FenicsxCoefficientLoop(n, coefs, flags, interior, start, map) ==
  IF n > Len(coefs) THEN [offset |-> start, map |-> map]
  ELSE LET r == fenicsx_prepare_coefficient(coefs[n], start, interior)
       IN FenicsxCoefficientLoop(n + 1, coefs, flags, interior, r.offset,
                                 IF flags[n]
                                 THEN [map EXCEPT ![n] = Entry(r.views)]
                                 ELSE map)

\* ufc.py:114-121
EntityNumberArgs(integral_type) ==
  IF integral_type = "exterior_facet" THEN <<"facet">>
  ELSE IF integral_type = "interior_facet" THEN <<"facet_0", "facet_1">>
  ELSE IF integral_type = "vertex" THEN <<"vertex">>
  ELSE <<>>

\* ufc.py:123-128
CellOrientationArgs(interior_facet) ==
  IF interior_facet THEN <<"cell_orientation_0", "cell_orientation_1">>
  ELSE <<"cell_orientation">>

\* ------------------------------------------------------- parameters.py
\* Parameter values are written as strings: None is "None", the integers are
\* their decimal numerals.
\* parameters.py:12-24
PARAMETERS ==
  [quadrature_rule |-> "auto", quadrature_degree |-> "auto",
   unroll_indexsum |-> "3", precision |-> "15"]

Absent == "<absent>"
ParameterValues == {None, "auto", "2", "3"}
ParameterKeys == {"quadrature_degree", "unroll_indexsum", "mode"}
\* a dictionary, as far as `key` goes: the value under key, or Absent
Dictionaries == ParameterValues \cup {Absent}
MetadataLists == UNION {[1..n -> Dictionaries] : n \in 0..MaxMetadata}
\* `defaults`: non-empty lists (next(v for v in defaults) needs a first one)
DefaultsLists == {<<None>>, <<None, "auto">>, <<"auto", None>>}

\* d.get(key, fallback)
Get(d, fallback) == IF d = Absent THEN fallback ELSE d

\* PARAMETERS.get(key)
GlobalDefault(key) ==
  IF key \in DOMAIN PARAMETERS THEN PARAMETERS[key] ELSE None

Range(f) == {f[i] : i \in DOMAIN f}

\* the orders in which a set may be iterated
Orders(S) ==
  {f \in [1..Cardinality(S) -> S] :
     \A i, j \in 1..Cardinality(S) : i # j => f[i] # f[j]}

RECURSIVE TranslateDefaults(_, _, _, _, _, _)
\* parameters.py:53-57: `for v in values` over the set in the given order,
\* removing and adding while iterating.  The set iterator raises RuntimeError
\* at the next step once the size of the set differs from the size it had
\* when the iteration began.  (A default added behind the iterator's position
\* may be visited too; visiting it removes and re-adds it.)
TranslateDefaults(i, order, values, size, defaults, default) ==
  IF Cardinality(values) # size
  THEN [status |-> "RuntimeError", values |-> values]
  ELSE IF i > Len(order) THEN [status |-> "ok", values |-> values]
  ELSE TranslateDefaults(i + 1, order,
                         IF order[i] \in Range(defaults)
                         THEN (values \ {order[i]}) \cup {default}
                         ELSE values,
                         size, defaults, default)

\* parameters.py:31-70: the outcome of the call, [status, value]; status is
\* "return" or the name of the exception raised.
get_common_parameter(key, parameters, metadata, defaults, order) ==
  LET default == defaults[1]
      translated == TranslateDefaults(1, order, Range(order),
                                      Cardinality(Range(order)),
                                      defaults, default)
      values == translated.values
      value == IF values = {} THEN default ELSE CHOOSE v \in values : TRUE
      value2 == IF value \in Range(defaults)
                THEN Get(parameters, GlobalDefault(key))
                ELSE value
  IN IF translated.status # "ok"
     THEN [status |-> translated.status, value |-> None]
     ELSE IF Cardinality(values) > 1
          THEN [status |-> "ValueError", value |-> None]
     ELSE IF value2 \in Range(defaults)
          THEN [status |-> "KeyError", value |-> None]
     ELSE [status |-> "return", value |-> value2]

\* set(md.get(key, default) for md in metadata)
MetadataValues(metadata, defaults) ==
  {Get(metadata[i], defaults[1]) : i \in 1..Len(metadata)}

\* ------------------------------------------------- expressions to index
Extents == 1..MaxExtent
OperandShapes == UNION {[1..n -> Extents] : n \in 0..MaxRank}

\* ------------------------------------------------------------------- state
VARIABLES
  builder_class,      \* "ufc": ufc.KernelBuilder, "fenicsx": its subclass
  integral_type,      \* self.integral_type
  interior_facet,     \* self.interior_facet
  local_tensor,       \* self.local_tensor
  coordinates_args,   \* self.coordinates_args
  coefficient_args,   \* self.coefficient_args
  coefficients,       \* form_data's coefficients, in declaration order
  enabled,            \* integral_data.enabled_coefficients
  coefficient_map,    \* self.coefficient_map, by position of the coefficient
  domain_coordinate,  \* the expression(s) stored for the coordinate field
  offset,             \* fenicsx set_coefficients: the running offset at exit
  arguments,          \* index shapes of the arguments given to set_arguments
  glue,               \* the element count of the memset given to apply_glue
  expressions,        \* the expressions set_arguments returned
  kernel,             \* the argument list of the last constructed kernel
  kernel_body,        \* "body", "empty" or None
  called,             \* the setters called on this builder so far
  raised,             \* the exception the last call raised, or None
  gcp,                \* get_common_parameter: the call and its outcome
  cell_index          \* add_cell_index / free_cell_index: operand and result

kb_vars == <<builder_class, integral_type, interior_facet, local_tensor,
             coordinates_args, coefficient_args, coefficients, enabled,
             coefficient_map, domain_coordinate, offset, arguments, glue,
             expressions, kernel, kernel_body, called, raised>>
vars == <<kb_vars, gcp, cell_index>>

NoCall == [called |-> FALSE]
NoGlue == -1
NoOffset == -1

\* ufc.py:27-51 (the fields the model follows): a builder constructed for an
\* integral of the given type, together with the form data it will be given
\* (the arguments, the coefficients and their enabled flags; at most
\* MaxFields arguments and coefficients in all).
InitBuilder ==
  /\ builder_class \in BuilderClasses
  /\ integral_type \in IntegralTypes
  /\ interior_facet = StartsWithInteriorFacet(integral_type)
  /\ local_tensor = None
  /\ coordinates_args = NoneList
  /\ coefficient_args = NoneList
  /\ arguments \in ArgumentLists
  /\ coefficients \in CoefficientLists
  /\ enabled \in EnabledFlags(Len(coefficients))
  /\ Len(arguments) + Len(coefficients) <= MaxFields
  /\ coefficient_map = [n \in 1..Len(coefficients) |-> NoEntry]
  /\ domain_coordinate = <<>>
  /\ offset = NoOffset
  /\ glue = NoGlue
  /\ expressions = <<>>
  /\ kernel = NoneList
  /\ kernel_body = None
  /\ called = {}
  /\ raised = None

Init ==
  /\ InitBuilder
  /\ gcp = NoCall
  /\ cell_index = NoCall

\* ufc.py:53-63
set_arguments ==
  /\ \E arity_checked \in BOOLEAN :
       LET r == prepare_arguments(arguments, interior_facet, arity_checked)
       IN IF r.status = "ok"
          THEN /\ local_tensor' = r.funarg
               /\ glue' = r.zero
               /\ expressions' = r.expressions
               /\ raised' = None
          ELSE /\ raised' = r.status
               /\ UNCHANGED <<local_tensor, glue, expressions>>
  /\ called' = called \cup {"set_arguments"}
  /\ UNCHANGED <<builder_class, integral_type, interior_facet,
                 coordinates_args, coefficient_args, coefficients, enabled,
                 coefficient_map, domain_coordinate, offset, arguments,
                 kernel, kernel_body, gcp, cell_index>>

\* ufc.py:65-75
set_coordinates ==
  /\ \E element \in CoordinateElements :
       LET r == prepare_coordinates(element, "coordinate_dofs", interior_facet)
       IN /\ coordinates_args' = r.funargs
          /\ domain_coordinate' = r.expression
  /\ called' = called \cup {"set_coordinates"}
  /\ raised' = None
  /\ UNCHANGED <<builder_class, integral_type, interior_facet, local_tensor,
                 coefficient_args, coefficients, enabled, coefficient_map,
                 offset, arguments, glue, expressions, kernel, kernel_body,
                 gcp, cell_index>>

\* ufc.py:77-98
ufc_set_coefficients ==
  /\ builder_class = "ufc"
  /\ \E arity_checked \in BOOLEAN :
       LET r == UfcCoefficientLoop(1, coefficients, enabled, interior_facet,
                                   arity_checked, coefficient_map)
       IN /\ coefficient_args' = <<"w">>
          /\ coefficient_map' = r.map
          /\ raised' = IF r.status = "ok" THEN None ELSE r.status
  /\ called' = called \cup {"set_coefficients"}
  /\ UNCHANGED <<builder_class, integral_type, interior_facet, local_tensor,
                 coordinates_args, coefficients, enabled, domain_coordinate,
                 offset, arguments, glue, expressions, kernel, kernel_body,
                 gcp, cell_index>>

\* fenicsx.py:15-38
fenicsx_set_coefficients ==
  /\ builder_class = "fenicsx"
  /\ LET r == FenicsxCoefficientLoop(1, coefficients, enabled, interior_facet,
                                     0, coefficient_map)
     IN /\ coefficient_args' = <<"w">>
        /\ coefficient_map' = r.map
        /\ offset' = r.offset
  /\ called' = called \cup {"set_coefficients"}
  /\ raised' = None
  /\ UNCHANGED <<builder_class, integral_type, interior_facet, local_tensor,
                 coordinates_args, coefficients, enabled, domain_coordinate,
                 arguments, glue, expressions, kernel, kernel_body,
                 gcp, cell_index>>

\* ufc.py:110-128
KernelArgs ==
  <<local_tensor>> \o coefficient_args \o coordinates_args
    \o EntityNumberArgs(integral_type) \o CellOrientationArgs(interior_facet)

\* ufc.py:100-130 with the given body; args.extend(None) raises TypeError
ConstructKernel(body) ==
  /\ IF coefficient_args = NoneList \/ coordinates_args = NoneList
     THEN /\ raised' = "TypeError"
          /\ UNCHANGED <<kernel, kernel_body>>
     ELSE /\ kernel' = KernelArgs
          /\ kernel_body' = body
          /\ raised' = None
  /\ UNCHANGED <<builder_class, integral_type, interior_facet, local_tensor,
                 coordinates_args, coefficient_args, coefficients, enabled,
                 coefficient_map, domain_coordinate, offset, arguments, glue,
                 expressions, called, gcp, cell_index>>

\* ufc.py:100-130
construct_kernel == ConstructKernel("body")

\* ufc.py:132-141
construct_empty_kernel == ConstructKernel("empty")

Next ==
  \/ set_arguments
  \/ set_coordinates
  \/ ufc_set_coefficients
  \/ fenicsx_set_coefficients
  \/ construct_kernel
  \/ construct_empty_kernel

Spec == Init /\ [][Next]_vars

\* A builder nothing is done with, for the specifications of the functions
\* that take no builder.
IdleBuilder ==
  /\ InitBuilder
  /\ builder_class = "ufc"
  /\ integral_type = "cell"
  /\ arguments = <<>>
  /\ coefficients = <<>>

\* ---------------------------------------------- get_common_parameter calls
InitParameters ==
  /\ IdleBuilder
  /\ \E key \in ParameterKeys, parameters \in Dictionaries,
        metadata \in MetadataLists, defaults \in DefaultsLists :
       gcp = [called |-> FALSE, key |-> key, parameters |-> parameters,
              metadata |-> metadata, defaults |-> defaults,
              outcome |-> [status |-> "pending", value |-> None]]
  /\ cell_index = NoCall

\* the call get_common_parameter(key, parameters, *metadata, defaults=defaults)
call_get_common_parameter ==
  /\ ~gcp.called
  /\ \E order \in Orders(MetadataValues(gcp.metadata, gcp.defaults)) :
       gcp' = [gcp EXCEPT
                 !.called = TRUE,
                 !.outcome = get_common_parameter(gcp.key, gcp.parameters,
                                                  gcp.metadata, gcp.defaults,
                                                  order)]
  /\ UNCHANGED <<kb_vars, cell_index>>

NextParameters == call_get_common_parameter

SpecParameters == InitParameters /\ [][NextParameters]_vars

\* ------------------------------------- add_cell_index / free_cell_index calls
InitCellIndex ==
  /\ IdleBuilder
  /\ gcp = NoCall
  /\ cell_index = NoCall

\* an expression e of some shape is taken as the operand
take_expression ==
  /\ \E shape \in OperandShapes :
       cell_index' = [called |-> TRUE, e |-> Base(shape),
                      result |-> Base(shape), ops |-> <<>>]
  /\ UNCHANGED <<kb_vars, gcp>>

\* result = add_cell_index(result)
apply_add_cell_index ==
  /\ cell_index.called
  /\ Len(cell_index.ops) < MaxOps
  /\ cell_index.result.status = "ok"
  /\ \E arity_checked \in BOOLEAN :
       cell_index' = [cell_index EXCEPT
                        !.result = add_cell_index(@, arity_checked),
                        !.ops = Append(@, "add_cell_index")]
  /\ UNCHANGED <<kb_vars, gcp>>

\* result = free_cell_index(result)
apply_free_cell_index ==
  /\ cell_index.called
  /\ Len(cell_index.ops) < MaxOps
  /\ cell_index.result.status = "ok"
  /\ \E arity_checked \in BOOLEAN :
       cell_index' = [cell_index EXCEPT
                        !.result = free_cell_index(@, arity_checked),
                        !.ops = Append(@, "free_cell_index")]
  /\ UNCHANGED <<kb_vars, gcp>>

NextCellIndex ==
  \/ take_expression
  \/ apply_add_cell_index
  \/ apply_free_cell_index

SpecCellIndex == InitCellIndex /\ [][NextCellIndex]_vars

\* =================================================================== claims
Setters == {"set_arguments", "set_coordinates", "set_coefficients"}

\* the single-sided flattened size of a coefficient
FlattenedSize(c) ==
  IF c.family = "Real" THEN Prod(c.ufl_shape) ELSE Prod(c.index_shape)

\* the flattened sizes of the arguments
ArgumentSizes == [i \in 1..Len(arguments) |-> Prod(arguments[i])]

\* --------------------------------------------------------------------- C1
\* the parameter lists the claim allows for an integral kind
ClaimedSignatures(kind) ==
  { <<"A">> \o coefficient \o coordinate \o entity \o orientation :
      coefficient \in {<<"w">>, <<"w_0", "w_1">>},
      coordinate \in
        {IF kind = "interior_facet"
         THEN <<"coordinate_dofs_0", "coordinate_dofs_1">>
         ELSE <<"coordinate_dofs">>},
      entity \in
        {IF kind = "cell" THEN <<>>
         ELSE IF kind = "exterior_facet" THEN <<"facet">>
         ELSE IF kind = "vertex" THEN <<"vertex">>
         ELSE <<"facet_0", "facet_1">>},
      orientation \in
        {IF kind = "interior_facet"
         THEN <<"cell_orientation_0", "cell_orientation_1">>
         ELSE <<"cell_orientation">>} }

\* C1: for every integral kind in {cell, exterior_facet, interior_facet,
\* vertex}, a kernel constructed by a builder whose three setters have been
\* called has the parameters: output buffer, coefficient buffer(s),
\* coordinate buffer(s), the entity numbers of the kind, the orientations of
\* the kind.
C1_SignatureOrder ==
  [][(kernel' # kernel /\ integral_type \in IntegralKinds
        /\ Setters \subseteq called)
       => kernel' \in ClaimedSignatures(integral_type)]_vars

\* --------------------------------------------------------------------- C2
\* C2 as stated: the coefficient buffer is "w" single-sided and the pair
\* "w_0", "w_1" for an interior facet; the coordinate buffer is
\* "coordinate_dofs" single-sided and the pair "coordinate_dofs_0",
\* "coordinate_dofs_1" for an interior facet.
C2_Original ==
  /\ "set_coefficients" \in called =>
       coefficient_args = IF interior_facet THEN <<"w_0", "w_1">> ELSE <<"w">>
  /\ "set_coordinates" \in called =>
       coordinates_args = IF interior_facet
                          THEN <<"coordinate_dofs_0", "coordinate_dofs_1">>
                          ELSE <<"coordinate_dofs">>

\* C2 amended: the coefficient buffer is the single parameter "w" for every
\* integral, interior-facet ones included; the coordinate buffer is
\* "coordinate_dofs" single-sided and the pair "coordinate_dofs_0",
\* "coordinate_dofs_1" for an interior facet; a constructed kernel carries
\* them in that order after its first parameter.
C2_BufferNames ==
  LET coordinate == IF interior_facet
                    THEN <<"coordinate_dofs_0", "coordinate_dofs_1">>
                    ELSE <<"coordinate_dofs">>
  IN /\ "set_coefficients" \in called => coefficient_args = <<"w">>
     /\ "set_coordinates" \in called => coordinates_args = coordinate
     /\ kernel # NoneList =>
          SubSeq(kernel, 2, 1 + Len(<<"w">> \o coordinate))
            = <<"w">> \o coordinate

C2_Witness ==
  /\ integral_type = "interior_facet"
  /\ kernel # NoneList
  /\ coefficient_args = <<"w">>
  /\ coordinates_args = <<"coordinate_dofs_0", "coordinate_dofs_1">>
  /\ Len(coefficients) = 2

\* --------------------------------------------------------------------- C3
\* what a coefficient occupies in the flat buffer
Footprint(c) ==
  IF c.family # "Real" /\ interior_facet
  THEN 2 * FlattenedSize(c) ELSE FlattenedSize(c)

RECURSIVE FootprintsBefore(_)
\* the sum of the footprints of coefficients 1..n-1
FootprintsBefore(n) ==
  IF n <= 1 THEN 0 ELSE FootprintsBefore(n - 1) + Footprint(coefficients[n - 1])

\* C3: in the flat-buffer planner the views of every enabled coefficient
\* start at the sum of the footprints of all coefficients declared before it,
\* enabled or not, and end where the next coefficient starts; disabled
\* coefficients get no entry; the ranges of different coefficients do not
\* overlap and never start earlier than those of an earlier coefficient; the
\* final offset is the sum of all footprints; the views and the final offset
\* are those the planner gives with every coefficient enabled.
C3_FlatOffsets ==
  (builder_class = "fenicsx" /\ "set_coefficients" \in called) =>
    /\ \A n \in 1..Len(coefficients) :
         /\ coefficient_map[n].present = enabled[n]
         /\ enabled[n] =>
              LET views == coefficient_map[n].views
              IN /\ views[1].start = FootprintsBefore(n)
                 /\ views[Len(views)].stop = FootprintsBefore(n + 1)
    /\ \A m, n \in 1..Len(coefficients) :
         (m < n /\ enabled[m] /\ enabled[n]) =>
           LET vm == coefficient_map[m].views
               vn == coefficient_map[n].views
           IN /\ vm[1].start <= vn[1].start
              /\ \A i \in 1..Len(vm), j \in 1..Len(vn) :
                   vm[i].stop <= vn[j].start
    /\ offset = FootprintsBefore(Len(coefficients) + 1)
    /\ LET all == FenicsxCoefficientLoop(
                    1, coefficients, [n \in 1..Len(coefficients) |-> TRUE],
                    interior_facet, 0,
                    [n \in 1..Len(coefficients) |-> NoEntry])
       IN /\ all.offset = offset
          /\ \A n \in 1..Len(coefficients) :
               enabled[n] => coefficient_map[n] = all.map[n]

\* sizes 5 and 7 single-sided, the first disabled: the second still starts
\* at 5 and the buffer holds 12
C3_Witness ==
  /\ builder_class = "fenicsx"
  /\ "set_coefficients" \in called
  /\ ~interior_facet
  /\ Len(coefficients) = 2
  /\ FlattenedSize(coefficients[1]) = 5
  /\ FlattenedSize(coefficients[2]) = 7
  /\ enabled = <<FALSE, TRUE>>
  /\ coefficient_map[2].views[1].start = 5
  /\ offset = 12

\* --------------------------------------------------------------------- C4
\* C4: for an interior-facet integral every enabled coefficient gets two
\* views, plus and minus, of the same shape and of the single-sided flattened
\* size each, the second starting exactly that size after the first, and
\* overlapping no view of another coefficient.
C4_InteriorFacetViews ==
  (integral_type = "interior_facet" /\ "set_coefficients" \in called) =>
    /\ \A n \in 1..Len(coefficients) :
         enabled[n] =>
           LET views == coefficient_map[n].views
               size == FlattenedSize(coefficients[n])
           IN /\ coefficient_map[n].present
              /\ Len(views) = 2
              /\ views[1].shape = views[2].shape
              /\ views[1].row = views[2].row
              /\ views[1].stop - views[1].start = size
              /\ views[2].stop - views[2].start = size
              /\ views[2].start - views[1].start = size
    /\ \A m, n \in 1..Len(coefficients) :
         (m # n /\ coefficient_map[m].present /\ coefficient_map[n].present) =>
           \A i \in 1..Len(coefficient_map[m].views),
              j \in 1..Len(coefficient_map[n].views) :
             LET a == coefficient_map[m].views[i]
                 b == coefficient_map[n].views[j]
             IN a.row # b.row \/ a.stop <= b.start \/ b.stop <= a.start

\* ---------------------------------------------------------------- C5, C6, C10
\* C5: once set_arguments has been called there are one expression
\* (single-sided) or 2^n expressions (interior facet), and every position of
\* the zero-initialized buffer is addressed by exactly one of them, and none
\* addresses a position outside it.
C5_OutputTiling ==
  "set_arguments" \in called =>
    /\ Len(expressions) = IF interior_facet THEN Pow2(Len(arguments)) ELSE 1
    /\ \A k \in 1..Len(expressions) :
         Addresses(expressions[k]) \subseteq 0..(glue - 1)
    /\ \A a \in 0..(glue - 1) :
         Cardinality({k \in 1..Len(expressions) :
                        a \in Addresses(expressions[k])}) = 1

\* C6: the zero-initialization clears as many elements as the product of the
\* arguments' flattened sizes (each doubled for an interior facet), and the
\* expressions address exactly these positions; one argument of size 3 in a
\* cell integral gives 3 elements and one expression over 0..2.
C6_ZeroInitSize ==
  "set_arguments" \in called =>
    /\ glue = Prod([i \in 1..Len(arguments) |->
                      IF interior_facet THEN 2 * ArgumentSizes[i]
                      ELSE ArgumentSizes[i]])
    /\ UNION {Addresses(expressions[k]) : k \in 1..Len(expressions)}
         = 0..(glue - 1)

RECURSIVE MixedRadix(_, _, _)
\* the offset of the block of a restriction combination in the row-major
\* buffer of extents 2 * sizes[i]: digit restrictions[i] * sizes[i] in
\* position i
MixedRadix(restrictions, sizes, i) ==
  IF i > Len(sizes) THEN 0
  ELSE restrictions[i] * sizes[i]
         * Prod([j \in 1..(Len(sizes) - i) |-> 2 * sizes[i + j]])
       + MixedRadix(restrictions, sizes, i + 1)

\* C10: for an interior-facet integral the expression of each restriction
\* combination addresses one contiguous range of the output buffer, as long
\* as the product of the arguments' flattened sizes, starting at the
\* mixed-radix encoding of the combination.
C10_ContiguousBlocks ==
  (interior_facet /\ "set_arguments" \in called) =>
    /\ Len(expressions) = Pow2(Len(arguments))
    /\ \A k \in 1..Len(expressions) :
         LET start == MixedRadix(Restrictions(Len(arguments))[k],
                                 ArgumentSizes, 1)
         IN Addresses(expressions[k])
              = start..(start + Prod(ArgumentSizes) - 1)

\* --------------------------------------------------------------------- C7
\* C7: add_cell_index(e) is an expression over e's shape plus the side
\* dimension, and free_cell_index(add_cell_index(e)) has the shape of e and
\* reads, at every multi-index, the element e has there.
C7_AddThenFree ==
  /\ (cell_index.called /\ cell_index.ops = <<"add_cell_index">>) =>
       /\ cell_index.result.status = "ok"
       /\ cell_index.result.shape = cell_index.e.shape \o ci_shape
  /\ (cell_index.called
        /\ cell_index.ops = <<"add_cell_index", "free_cell_index">>) =>
       /\ cell_index.result.status = "ok"
       /\ cell_index.result.shape = cell_index.e.shape
       /\ cell_index.result.src = cell_index.e.src

\* --------------------------------------------------------------------- C9
\* C9: for an integral type outside {cell, exterior_facet, interior_facet,
\* vertex} no parameter list is returned, neither by construct_kernel nor by
\* construct_empty_kernel.
C9_UnsupportedKindFails ==
  integral_type \notin IntegralKinds => kernel = NoneList

\* --------------------------------------------------------------------- C8
\* the metadata values with every value of defaults identified
Identified ==
  {IF v \in Range(gcp.defaults) THEN "<default>" ELSE v :
     v \in MetadataValues(gcp.metadata, gcp.defaults)}

\* C8: get_common_parameter raises ValueError exactly when the metadata hold
\* more than one value after the values of defaults are identified; otherwise
\* it returns a value outside defaults (the common metadata value, else the
\* value from parameters, else the global default) or raises KeyError; it
\* raises nothing else.
C8_CommonParameter ==
  gcp.called =>
    /\ gcp.outcome.status \in {"ValueError", "KeyError", "return"}
    /\ gcp.outcome.status = "ValueError" <=> Cardinality(Identified) > 1
    /\ gcp.outcome.status = "return" =>
         /\ gcp.outcome.value \notin Range(gcp.defaults)
         /\ gcp.outcome.value =
              IF Identified \notin {{}, {"<default>"}}
              THEN CHOOSE v \in Identified : TRUE
              ELSE Get(gcp.parameters, GlobalDefault(gcp.key))

====
